---- MODULE Spec2Model ----
(***************************************************************************)
(* Reply-tree reconstruction of echo-field: the parent resolver            *)
(* (mapEventToPost), the fetch that maps and sorts the events (fetchPosts) *)
(* and the hierarchy builder (buildHierarchy) with its root promotion; the  *)
(* path finder and the expansion state of the Index page and its Post      *)
(* components; the radial layout and the pan/zoom transform of             *)
(* NostrVisualization.                                                     *)
(*                                                                         *)
(* JavaScript objects are identified by their id: buildHierarchy keeps one *)
(* node object per id in postMap, and rootPosts and every comments list    *)
(* hold references to those objects, so a list of node references is a     *)
(* sequence of ids and the comments fields are one function from the keys  *)
(* of postMap to sequences of ids.                                         *)
(***************************************************************************)
EXTENDS Integers, Sequences, FiniteSets, TLC

VARIABLES pc, event, post, events, data, highlightedId, rootPosts, comments,
          path, expandedIds, showComments, scrollTo, isGraphVisible, viz, async

\* state of the Index page besides its posts (rootPosts, comments), with the
\* showComments state of the mounted Post components
indexVars == <<path, expandedIds, showComments, scrollTo, isGraphVisible>>

vars == <<pc, event, post, events, data, highlightedId, rootPosts, comments,
          path, expandedIds, showComments, scrollTo, isGraphVisible, viz, async>>

-----------------------------------------------------------------------------
(* Values *)

Null == "null"
Undefined == "undefined"
EmptyStr == ""

\* ids of the notes that can be fetched, and an id that no note has
Ids == {"a", "b", "c", "d"}
Absent == "z"

\* longest list of rows handed to buildHierarchy
MaxPosts == 3
\* longest tag list of the event handed to mapEventToPost
MaxTags == 3
\* longest event list returned by one fetch, and longest tag list of such an event
MaxEvents == 2
MaxEventTags == 1
\* largest created_at of a fetched event
MaxTime == 1

\* an event without created_at
NoTime == 0 - 1
Times == {NoTime} \cup (1..MaxTime)

\* the result of Array.prototype.find when no element matches
NoTag == <<>>

SeqsUpTo(S, n) == UNION {[1..k -> S] : k \in 0..n}

\* JavaScript truthiness of a string-or-null value
Truthy(v) == v \notin {Null, Undefined, EmptyStr}

\* t[i] of a JavaScript array (0-based), undefined past its end
At(t, i) == IF i + 1 <= Len(t) THEN t[i + 1] ELSE Undefined

-----------------------------------------------------------------------------
(* Inputs *)

\* a tag is [kind, target] or [kind, target, relay, marker]
TagKinds == {"e", "p"}
TagTargets == {"a", "b", Absent}
TagMarkers == {"reply", "root"}
Tags == {<<k, t>> : k \in TagKinds, t \in TagTargets}
          \cup {<<k, t, EmptyStr, m>> : k \in TagKinds, t \in TagTargets, m \in TagMarkers}

EventsWith(maxTags) == [id : Ids, created_at : Times, tags : SeqsUpTo(Tags, maxTags)]

DistinctIds(s) == \A i, j \in DOMAIN s : s[i].id = s[j].id => i = j

\* a fetch returns a set of events: no id twice
EventLists == {s \in SeqsUpTo(EventsWith(MaxEventTags), MaxEvents) : DistinctIds(s)}

\* rows as the callers hand them over: id and parent_id
ParentIds == {Null, EmptyStr, Absent} \cup Ids
Rows == [id : Ids, parent_id : ParentIds]
PostLists == {s \in SeqsUpTo(Rows, MaxPosts) : DistinctIds(s)}

HighlightIds == {Undefined, Absent} \cup Ids

-----------------------------------------------------------------------------
(* mapEventToPost *)

IsETag(t) == At(t, 0) = "e"
IsReplyTag(t) == At(t, 0) = "e" /\ At(t, 3) = "reply"

\* the first tag that is an 'e' tag marked 'reply' (Array.prototype.find)
findReplyTag(tags) ==
    IF \E i \in DOMAIN tags : IsReplyTag(tags[i])
    THEN tags[CHOOSE i \in DOMAIN tags :
                  IsReplyTag(tags[i]) /\ \A j \in 1..(i - 1) : ~IsReplyTag(tags[j])]
    ELSE NoTag

\* variant: the last reply-marked tag instead of the first
ParentTagLastReply(tags) ==
    LET replies == SelectSeq(tags, IsReplyTag)
        allETags == SelectSeq(tags, IsETag)
    IN  IF Len(replies) > 0 THEN replies[Len(replies)]
        ELSE IF Len(allETags) > 0 THEN allETags[Len(allETags)] ELSE NoTag

\* variant: the first 'e' tag, as in the resolver of src/src/lib/nostr.ts
ParentTagFirstE(tags) ==
    LET allETags == SelectSeq(tags, IsETag)
    IN  IF Len(allETags) > 0 THEN allETags[1] ELSE NoTag

ParentTag(tags) ==
    LET replyTag == findReplyTag(tags)
        allETags == SelectSeq(tags, IsETag)
        lastETag == IF Len(allETags) > 0 THEN allETags[Len(allETags)] ELSE NoTag
    IN  IF replyTag # NoTag THEN replyTag ELSE lastETag

mapEventToPost(ev) ==
    LET parentTag == ParentTag(ev.tags)
    IN  [id |-> ev.id,
         created_at |-> IF ev.created_at = NoTime THEN 0 ELSE ev.created_at,
         parent_id |-> IF parentTag # NoTag THEN At(parentTag, 1) ELSE Null]

-----------------------------------------------------------------------------
(* fetchPosts: map every event, then sort by created_at, newest first *)

RECURSIVE sortNewestFirst(_)
sortNewestFirst(s) ==
    IF s = <<>> THEN <<>>
    ELSE LET init == sortNewestFirst(SubSeq(s, 1, Len(s) - 1))
             p == s[Len(s)]
             k == Cardinality({i \in DOMAIN init : init[i].created_at >= p.created_at})
         IN  SubSeq(init, 1, k) \o <<p>> \o SubSeq(init, k + 1, Len(init))

fetchPosts(evs) == sortNewestFirst([i \in DOMAIN evs |-> mapEventToPost(evs[i])])

-----------------------------------------------------------------------------
(* buildHierarchy *)

\* first pass: the keys of postMap
PostMapKeys(posts) == {posts[i].id : i \in DOMAIN posts}

\* variant: the push to rootPosts is not in an else branch
SecondPassStepAlsoRoot(st, p, keys) ==
    LET st1 == IF Truthy(p.parent_id) /\ p.parent_id \in keys
               THEN [st EXCEPT !.comments[p.parent_id] = Append(@, p.id)]
               ELSE st
    IN  [st1 EXCEPT !.rootPosts = Append(@, p.id)]

\* variant: unshift instead of push
SecondPassStepPrepend(st, p, keys) ==
    IF Truthy(p.parent_id)
    THEN IF p.parent_id \in keys
         THEN [st EXCEPT !.comments[p.parent_id] = <<p.id>> \o @]
         ELSE st
    ELSE [st EXCEPT !.rootPosts = <<p.id>> \o @]

\* second pass, one iteration of posts.forEach
SecondPassStep(st, p, keys) ==
    IF Truthy(p.parent_id)
    THEN IF p.parent_id \in keys
         THEN [st EXCEPT !.comments[p.parent_id] = Append(@, p.id)]
         ELSE st
    ELSE [st EXCEPT !.rootPosts = Append(@, p.id)]

RECURSIVE SecondPass(_, _, _)
SecondPass(posts, n, keys) ==
    IF n = 0
    THEN [rootPosts |-> <<>>, comments |-> [id \in keys |-> <<>>]]
    ELSE SecondPassStep(SecondPass(posts, n - 1, keys), posts[n], keys)

\* Array.prototype.findIndex on the ids (0-based, -1 when absent)
findIndex(roots, id) ==
    IF \E i \in DOMAIN roots : roots[i] = id
    THEN (CHOOSE i \in DOMAIN roots : roots[i] = id /\ \A j \in 1..(i - 1) : roots[j] # id) - 1
    ELSE 0 - 1

\* splice(highlightIndex, 1) followed by unshift
MoveToFront(roots, highlightIndex) ==
    <<roots[highlightIndex + 1]>>
        \o SubSeq(roots, 1, highlightIndex)
        \o SubSeq(roots, highlightIndex + 2, Len(roots))

\* variant: the highlighted root is exchanged with the first root
PromoteSwap(roots, id) ==
    IF Truthy(id)
    THEN LET highlightIndex == findIndex(roots, id)
         IN  IF highlightIndex > 0
             THEN [i \in DOMAIN roots |->
                     IF i = 1 THEN roots[highlightIndex + 1]
                     ELSE IF i = highlightIndex + 1 THEN roots[1] ELSE roots[i]]
             ELSE roots
    ELSE roots

\* variant: highlightIndex !== 0; splice(-1, 1) then removes the last element
PromoteNotZero(roots, id) ==
    IF Truthy(id)
    THEN LET highlightIndex == findIndex(roots, id)
         IN  IF highlightIndex # 0 /\ roots # <<>>
             THEN MoveToFront(roots, IF highlightIndex < 0 THEN Len(roots) - 1
                                     ELSE highlightIndex)
             ELSE roots
    ELSE roots

Promote(roots, id) ==
    IF Truthy(id)
    THEN LET highlightIndex == findIndex(roots, id)
         IN  IF highlightIndex > 0 THEN MoveToFront(roots, highlightIndex) ELSE roots
    ELSE roots

buildHierarchy(posts, id) ==
    LET st == SecondPass(posts, Len(posts), PostMapKeys(posts))
    IN  [rootPosts |-> Promote(st.rootPosts, id), comments |-> st.comments]

-----------------------------------------------------------------------------
(* Specifications *)

NoEvent == [id |-> Null, created_at |-> NoTime, tags |-> <<>>]
NoPost == [id |-> Null, created_at |-> 0, parent_id |-> Null]
NoComments == [id \in {} |-> <<>>]

\* findPathToNode returning null (a found path is never empty)
NullPath == <<>>

\* the Index page as constructed: nothing expanded, the graph shown
IndexIdle ==
    /\ path = NullPath
    /\ expandedIds = {}
    /\ showComments = [id \in {} |-> FALSE]
    /\ scrollTo = Null
    /\ isGraphVisible = TRUE

\* no NostrVisualization mounted
NoViz == [mounted |-> FALSE]
\* no asynchronous call is in flight
NoAsync == [calls |-> <<>>]

\* Spec: buildHierarchy applied to a list of rows and a highlighted id
Init ==
    /\ pc = "rows"
    /\ IndexIdle
    /\ viz = NoViz
    /\ async = NoAsync
    /\ data \in PostLists
    /\ highlightedId \in HighlightIds
    /\ rootPosts = <<>>
    /\ comments = NoComments
    /\ event = NoEvent
    /\ post = NoPost
    /\ events = <<>>

BuildHierarchy ==
    /\ pc = "rows"
    /\ LET h == buildHierarchy(data, highlightedId)
       IN  /\ rootPosts' = h.rootPosts
           /\ comments' = h.comments
    /\ pc' = "built"
    /\ UNCHANGED <<event, post, events, data, highlightedId, indexVars, viz, async>>

Next == BuildHierarchy

Spec == Init /\ [][Next]_vars

\* SpecResolve: mapEventToPost applied to one event
InitResolve ==
    /\ pc = "event"
    /\ IndexIdle
    /\ viz = NoViz
    /\ async = NoAsync
    /\ event \in EventsWith(MaxTags)
    /\ post = NoPost
    /\ events = <<>>
    /\ data = <<>>
    /\ highlightedId = Undefined
    /\ rootPosts = <<>>
    /\ comments = NoComments

MapEventToPost ==
    /\ pc = "event"
    /\ post' = mapEventToPost(event)
    /\ pc' = "mapped"
    /\ UNCHANGED <<event, events, data, highlightedId, rootPosts, comments, indexVars, viz, async>>

NextResolve == MapEventToPost

SpecResolve == InitResolve /\ [][NextResolve]_vars

\* SpecLoad: loadPosts, that is fetchPosts followed by buildHierarchy
InitLoad ==
    /\ pc = "events"
    /\ IndexIdle
    /\ viz = NoViz
    /\ async = NoAsync
    /\ events \in EventLists
    /\ data = <<>>
    /\ highlightedId = Undefined
    /\ rootPosts = <<>>
    /\ comments = NoComments
    /\ event = NoEvent
    /\ post = NoPost

LoadPosts ==
    /\ pc = "events"
    /\ LET fetched == fetchPosts(events)
           h == buildHierarchy(fetched, Undefined)
       IN  /\ data' = fetched
           /\ rootPosts' = h.rootPosts
           /\ comments' = h.comments
    /\ pc' = "built"
    /\ UNCHANGED <<event, post, events, highlightedId, indexVars, viz, async>>

NextLoad == LoadPosts

SpecLoad == InitLoad /\ [][NextLoad]_vars

-----------------------------------------------------------------------------
(* The built forest *)

Range(s) == {s[i] : i \in DOMAIN s}

Occurrences(id, s) == Cardinality({i \in DOMAIN s : s[i] = id})

NoDuplicates(s) == \A i, j \in DOMAIN s : s[i] = s[j] => i = j

\* ids met by a depth-first walk of a node list that follows the comments
\* links at most fuel levels down
RECURSIVE Walk(_, _, _)
Walk(c, nodes, fuel) ==
    IF nodes = <<>> \/ fuel = 0 THEN <<>>
    ELSE <<Head(nodes)>> \o Walk(c, c[Head(nodes)], fuel - 1) \o Walk(c, Tail(nodes), fuel)

\* every id the forest under rootPosts holds, once per position
ForestIds == Walk(comments, rootPosts, Len(data) + 1)

\* the nodes reachable from the nodes of S by at most n further comments links
RECURSIVE ReachableFrom(_, _, _)
ReachableFrom(c, S, n) ==
    IF n = 0 THEN S
    ELSE ReachableFrom(c, S \cup UNION {Range(c[x]) : x \in S}, n - 1)

OnCycle(id) == id \in ReachableFrom(comments, Range(comments[id]), Cardinality(DOMAIN comments))

IsChild(id) == \E p \in DOMAIN comments : id \in Range(comments[p])

\* position of the row with this id in the input list
InputIndex(id) == CHOOSE i \in DOMAIN data : data[i].id = id

InInputOrder(s) == \A i, j \in DOMAIN s : i < j => InputIndex(s[i]) < InputIndex(s[j])

\* the root list and child lists buildHierarchy returns for the same rows
\* when no highlighted id is passed
Unpromoted == buildHierarchy(data, Undefined)

Without(s, k) == SubSeq(s, 1, k - 1) \o SubSeq(s, k + 1, Len(s))

-----------------------------------------------------------------------------
(* Claims *)

\* C1 (Spec): after buildHierarchy every id of the input list occurs exactly
\* once in the forest reachable from the returned root list.
Completeness ==
    pc = "built" =>
        \A i \in DOMAIN data : Occurrences(data[i].id, ForestIds) = 1

\* C2 (Spec): a row whose parent_id is not null and is the id of no row of the
\* input list is an element of the returned root list.
OrphanAsRoot ==
    pc = "built" =>
        \A i \in DOMAIN data :
            (data[i].parent_id # Null /\ data[i].parent_id \notin PostMapKeys(data))
                => data[i].id \in Range(rootPosts)

\* C3 (SpecLoad): an event whose only 'e' tag targets the event's own id is,
\* after mapEventToPost and buildHierarchy, a root and nobody's child.
SelfReferenceSafety ==
    pc = "built" =>
        \A i \in DOMAIN events :
            LET eTags == SelectSeq(events[i].tags, IsETag)
            IN  (Len(eTags) = 1 /\ At(eTags[1], 1) = events[i].id)
                    => /\ events[i].id \in Range(rootPosts)
                       /\ ~IsChild(events[i].id)

\* C4 (Spec): with distinct input ids no node is in the comments of two
\* parents, none is both a root and a child, and no list holds a node twice.
SinglePosition ==
    (pc = "built" /\ DistinctIds(data)) =>
        /\ \A p, q \in DOMAIN comments :
               (Range(comments[p]) \cap Range(comments[q]) # {}) => p = q
        /\ \A id \in Range(rootPosts) : ~IsChild(id)
        /\ NoDuplicates(rootPosts)
        /\ \A p \in DOMAIN comments : NoDuplicates(comments[p])

SinglePositionWitness ==
    /\ pc = "built"
    /\ Len(data) = 3
    /\ Len(rootPosts) = 1
    /\ Len(comments[rootPosts[1]]) = 1
    /\ Len(comments[comments[rootPosts[1]][1]]) = 1

\* C5 (Spec): no node is in its own comments list and no node is reachable
\* from itself along comments links.
Acyclicity ==
    pc = "built" =>
        \A id \in DOMAIN comments :
            id \notin Range(comments[id]) /\ ~OnCycle(id)

\* C6 (SpecResolve): when some tag is an 'e' tag marked 'reply', parent_id is
\* the target of the first such tag, whatever other 'e' tags surround it.
ReplyPriority ==
    pc = "mapped" =>
        \A i \in DOMAIN event.tags :
            (/\ event.tags[i][1] = "e"
             /\ Len(event.tags[i]) >= 4
             /\ event.tags[i][4] = "reply"
             /\ \A j \in 1..(i - 1) :
                    ~(event.tags[j][1] = "e" /\ Len(event.tags[j]) >= 4
                        /\ event.tags[j][4] = "reply"))
                => post.parent_id = event.tags[i][2]

ReplyPriorityWitness ==
    /\ pc = "mapped"
    /\ Len(event.tags) = 3
    /\ event.tags[1] = <<"e", "a", EmptyStr, "root">>
    /\ event.tags[2] = <<"e", "b", EmptyStr, "reply">>
    /\ event.tags[3] = <<"e", Absent, EmptyStr, "reply">>
    /\ post.parent_id = "b"

\* C7 (SpecResolve): with no 'e' tag marked 'reply', parent_id is the target
\* of the last 'e' tag, and null when the list has no 'e' tag.
LastETagFallback ==
    (pc = "mapped"
        /\ \A j \in DOMAIN event.tags :
               ~(event.tags[j][1] = "e" /\ Len(event.tags[j]) >= 4
                   /\ event.tags[j][4] = "reply")) =>
        LET eIdx == {i \in DOMAIN event.tags : event.tags[i][1] = "e"}
        IN  IF eIdx = {} THEN post.parent_id = Null
            ELSE post.parent_id = event.tags[CHOOSE i \in eIdx : \A j \in eIdx : j <= i][2]

LastETagFallbackWitness ==
    /\ pc = "mapped"
    /\ Len(event.tags) = 3
    /\ event.tags[1] = <<"e", "a">>
    /\ event.tags[2] = <<"e", "b", EmptyStr, "root">>
    /\ event.tags[3] = <<"p", Absent>>
    /\ post.parent_id = "b"

\* C8 (Spec): a highlighted id that is a root at index k > 0 of the root list
\* comes first, the other roots keep their relative order, and the child
\* lists are those built without promotion.
PromotionEffect ==
    pc = "built" =>
        \A k \in 2..Len(Unpromoted.rootPosts) :
            Unpromoted.rootPosts[k] = highlightedId
                => /\ rootPosts = <<highlightedId>> \o Without(Unpromoted.rootPosts, k)
                   /\ Range(rootPosts) = Range(Unpromoted.rootPosts)
                   /\ comments = Unpromoted.comments

PromotionEffectWitness ==
    /\ pc = "built"
    /\ Len(rootPosts) = 3
    /\ Unpromoted.rootPosts[3] = highlightedId
    /\ rootPosts[1] = highlightedId

\* C9 (Spec): a highlighted id that is already the first root, is no root, or
\* is omitted leaves the root order as it is without promotion, and promoting
\* the returned root list again changes nothing.
PromotionNoOp ==
    pc = "built" =>
        /\ (\/ highlightedId = Undefined
            \/ highlightedId \notin Range(Unpromoted.rootPosts)
            \/ (Unpromoted.rootPosts # <<>> /\ Unpromoted.rootPosts[1] = highlightedId))
               => rootPosts = Unpromoted.rootPosts
        /\ Promote(rootPosts, highlightedId) = rootPosts

PromotionNoOpWitness ==
    /\ pc = "built"
    /\ Len(rootPosts) = 2
    /\ IsChild(highlightedId)

\* C10 (Spec): without promotion the roots are in input order, and so are the
\* children in every comments list.
OrderPreservation ==
    (pc = "built" /\ highlightedId = Undefined) =>
        /\ InInputOrder(rootPosts)
        /\ \A p \in DOMAIN comments : InInputOrder(comments[p])

OrderPreservationWitness ==
    /\ pc = "built"
    /\ highlightedId = Undefined
    /\ \E p \in DOMAIN comments : Len(comments[p]) = 2 /\ p \in Range(rootPosts)

-----------------------------------------------------------------------------
(* Index page: findPathToNode, onNodeClick and the Post components *)

\* most rows of the thread the page loads
MaxThread == 3

\* the rows of a loaded thread: ids in a fixed order (ids are interchangeable),
\* any parent_id
IdOrder == <<"a", "b", "c", "d", "e">>
ThreadLists ==
    UNION {{[i \in 1..n |-> [id |-> IdOrder[i], parent_id |-> ps[i]]] :
                ps \in [1..n -> ParentIds]} : n \in 0..MaxThread}

ClickIds == Ids \cup {Absent}

\* variant: the node's own id is not added to the path handed down
RECURSIVE findPathSkipsAncestors(_, _, _, _)
findPathSkipsAncestors(c, nodes, targetId, currentPath) ==
    IF nodes = <<>> THEN NullPath
    ELSE LET node == Head(nodes)
         IN  IF node = targetId THEN Append(currentPath, node)
             ELSE LET found == findPathSkipsAncestors(c, c[node], targetId, currentPath)
                  IN  IF found # NullPath THEN found
                      ELSE findPathSkipsAncestors(c, Tail(nodes), targetId, currentPath)

\* variant: the path walked so far is returned when the loop ends
RECURSIVE findPathReturnsCurrent(_, _, _, _)
findPathReturnsCurrent(c, nodes, targetId, currentPath) ==
    IF nodes = <<>> THEN currentPath
    ELSE LET node == Head(nodes)
         IN  IF node = targetId THEN Append(currentPath, node)
             ELSE LET found == findPathReturnsCurrent(c, c[node], targetId,
                                                      Append(currentPath, node))
                  IN  IF found # NullPath THEN found
                      ELSE findPathReturnsCurrent(c, Tail(nodes), targetId, currentPath)

\* findPathToNode(nodes, targetId, currentPath); c holds the comments lists
RECURSIVE findPathToNode(_, _, _, _)
findPathToNode(c, nodes, targetId, currentPath) ==
    IF nodes = <<>> THEN NullPath
    ELSE LET node == Head(nodes)
         IN  IF node = targetId THEN Append(currentPath, node)
             ELSE LET found == findPathToNode(c, c[node], targetId,
                                              Append(currentPath, node))
                  IN  IF found # NullPath THEN found
                      ELSE findPathToNode(c, Tail(nodes), targetId, currentPath)

\* variant: the new set starts empty instead of as a copy of expandedIds
ExpandedAfterClickFresh(expanded, found) ==
    IF found # NullPath THEN Range(found) ELSE expanded

\* onNodeClick, step 1: new Set(expandedIds) with every id of the path added
ExpandedAfterClick(expanded, found) ==
    IF found # NullPath THEN expanded \cup Range(found) ELSE expanded

\* showComments of a Post after rendering: its state (false when it has just
\* mounted), set to true by the check against expandedIds in the render body
ShownAfterRender(id, show, expanded) ==
    (IF id \in DOMAIN show THEN show[id] ELSE FALSE) \/ id \in expanded

\* the Post components mounted under a list of nodes: a Post renders its
\* comments only while showComments and comments.length > 0
RECURSIVE MountedUnder(_, _, _, _)
MountedUnder(c, nodes, show, expanded) ==
    UNION {{n} \cup (IF ShownAfterRender(n, show, expanded) /\ c[n] # <<>>
                     THEN MountedUnder(c, c[n], show, expanded)
                     ELSE {}) : n \in Range(nodes)}

\* the showComments states after React has rendered the post list: Posts that
\* stay mounted keep their state, unmounted ones lose it
Render(c, roots, show, expanded) ==
    [id \in MountedUnder(c, roots, show, expanded) |->
        ShownAfterRender(id, show, expanded)]

\* handleContentClick of the Post with this id
handleContentClick(c, id, show) ==
    IF Len(c[id]) > 0 THEN [show EXCEPT ![id] = ~@] ELSE show

\* SpecIndex: the page loads a thread, then nodes are clicked in the graph and
\* posts are toggled in the list
InitIndex ==
    /\ pc = "mount"
    /\ data = <<>>
    /\ rootPosts = <<>>
    /\ comments = NoComments
    /\ IndexIdle
    /\ highlightedId = Undefined
    /\ event = NoEvent
    /\ post = NoPost
    /\ events = <<>>
    /\ viz = NoViz
    /\ async = NoAsync

\* loadPosts once the rows are fetched: setPosts, setFilteredPosts, render
LoadThread ==
    /\ pc = "mount"
    /\ \E rows \in ThreadLists :
           LET h == buildHierarchy(rows, Undefined)
           IN  /\ rootPosts' = h.rootPosts
               /\ comments' = h.comments
               /\ showComments' = Render(h.comments, h.rootPosts, showComments, expandedIds)
    /\ pc' = "loaded"
    /\ UNCHANGED <<event, post, events, data, highlightedId,
                   path, expandedIds, scrollTo, isGraphVisible, viz, async>>

\* onNodeClick(postId), called by a click on a node of the graph
OnNodeClick(postId) ==
    /\ pc = "loaded"
    /\ isGraphVisible
    /\ LET found == findPathToNode(comments, rootPosts, postId, <<>>)
           expanded == ExpandedAfterClick(expandedIds, found)
       IN  /\ path' = found
           /\ expandedIds' = expanded
           /\ showComments' = Render(comments, rootPosts, showComments, expanded)
    /\ isGraphVisible' = FALSE
    /\ scrollTo' = postId
    /\ UNCHANGED <<pc, event, post, events, data, highlightedId, rootPosts, comments, viz, async>>

\* the button that shows or hides the graph
ToggleGraph ==
    /\ pc = "loaded"
    /\ isGraphVisible' = ~isGraphVisible
    /\ UNCHANGED <<pc, event, post, events, data, highlightedId, rootPosts, comments,
                   path, expandedIds, showComments, scrollTo, viz, async>>

\* a click on the content or the comments button of a mounted Post
ToggleComments(id) ==
    /\ pc = "loaded"
    /\ id \in DOMAIN showComments
    /\ showComments' = Render(comments, rootPosts,
                              handleContentClick(comments, id, showComments), expandedIds)
    /\ UNCHANGED <<pc, event, post, events, data, highlightedId, rootPosts, comments,
                   path, expandedIds, scrollTo, isGraphVisible, viz, async>>

NextIndex ==
    \/ LoadThread
    \/ \E postId \in ClickIds : OnNodeClick(postId)
    \/ ToggleGraph
    \/ \E id \in Ids : ToggleComments(id)

SpecIndex == InitIndex /\ [][NextIndex]_vars

-----------------------------------------------------------------------------
(* Claims about the Index page *)

\* every id the loaded forest holds
LoadedIds == Range(Walk(comments, rootPosts, Cardinality(DOMAIN comments) + 1))

\* the node whose comments hold this id, and the ids from the node up
ParentsOf(id) == {p \in DOMAIN comments : id \in Range(comments[p])}
RECURSIVE SelfAndAncestors(_, _)
SelfAndAncestors(id, fuel) ==
    {id} \cup (IF fuel = 0 THEN {}
               ELSE UNION {SelfAndAncestors(p, fuel - 1) : p \in ParentsOf(id)})

\* C11 (SpecIndex): for an id present in the loaded forest findPathToNode
\* returns a path that starts at a root, ends at the target, and in which
\* every later element is a child of the element before it.
PathCorrectness ==
    (pc = "loaded" /\ scrollTo \in LoadedIds) =>
        /\ path # NullPath
        /\ path[1] \in Range(rootPosts)
        /\ path[Len(path)] = scrollTo
        /\ \A i \in 2..Len(path) : path[i] \in Range(comments[path[i - 1]])

PathCorrectnessWitness ==
    /\ pc = "loaded"
    /\ Len(path) = 3
    /\ Len(rootPosts) = 1

\* C12 (SpecIndex): for a target id that no node of the forest has, also in
\* the empty forest, findPathToNode returns null.
UnresolvedTarget ==
    (pc = "loaded" /\ scrollTo # Null /\ scrollTo \notin LoadedIds) =>
        path = NullPath

UnresolvedTargetWitness ==
    /\ pc = "loaded"
    /\ scrollTo = Absent
    /\ path = NullPath
    /\ \E r \in Range(rootPosts) : Len(comments[r]) = 2

\* C14 (SpecIndex): onNodeClick of an id present in the forest puts the target
\* and all its ancestors into expandedIds, keeps what expandedIds held, and
\* requests the scroll to the target.
Activation ==
    [][\A id \in ClickIds :
          (OnNodeClick(id) /\ id \in LoadedIds) =>
              /\ SelfAndAncestors(id, Cardinality(DOMAIN comments)) \subseteq expandedIds'
              /\ Range(path') \subseteq expandedIds'
              /\ expandedIds \subseteq expandedIds'
              /\ scrollTo' = id]_vars

ActivationWitness ==
    /\ pc = "loaded"
    /\ Len(path) = 2
    /\ scrollTo = path[2]
    /\ Range(path) \subseteq expandedIds
    /\ Cardinality(expandedIds) = 3

\* the showComments states after a click on the Post with this id
AfterToggle(id) ==
    Render(comments, rootPosts, handleContentClick(comments, id, showComments), expandedIds)

\* C15 (SpecIndex): an expanded Post with a child is collapsed by a toggle of
\* that Post, also when its id is in expandedIds, and a collapsed Post stays
\* collapsed when another Post is toggled.
CollapseOnToggle ==
    pc = "loaded" =>
        \A id \in DOMAIN showComments :
            /\ (showComments[id] /\ Len(comments[id]) > 0)
                  => (id \in DOMAIN AfterToggle(id) /\ ~AfterToggle(id)[id])
            /\ ~showComments[id]
                  => \A t \in DOMAIN showComments \ {id} :
                         id \in DOMAIN AfterToggle(t) => ~AfterToggle(t)[id]

\* C16 (SpecIndex): when a toggle collapses a Post, a child that was expanded
\* before is expanded again once the Post is toggled open again.
NonCascadingCollapse ==
    [][\A p \in Ids :
          (/\ ToggleComments(p)
           /\ showComments[p]
           /\ p \in DOMAIN showComments'
           /\ ~showComments'[p])
              => LET reopened == Render(comments, rootPosts,
                                        handleContentClick(comments, p, showComments'),
                                        expandedIds')
                 IN  \A d \in Range(comments[p]) :
                         (d \in DOMAIN showComments /\ showComments[d])
                             => (d \in DOMAIN reopened /\ reopened[d])]_vars

-----------------------------------------------------------------------------
(* NostrVisualization (src/src/components/NostrVisualization.tsx, 251-517).  *)
(* The component state is the record viz: the posts prop (a forest as         *)
(* buildHierarchy returns it), dimensions, the published nodes and links,    *)
(* hoveredNodeId, transform, isDragging and dragStart.  crashed records that  *)
(* the layout effect threw: React has no error boundary here and unmounts     *)
(* the tree, so nothing happens to the component afterwards.                  *)

\* bound: notes of a forest handed to the layout
MaxTree == 4
\* bound: presses of the + or - button away from scale 1 (unbounded in the code)
MaxZoomClicks == 1
\* bound: largest pan offset, in pointer units (unbounded in the code)
MaxPan == 1

Min(a, b) == IF a < b THEN a ELSE b

\* rows whose parent is null, a missing note or an earlier note of the list
TreeLists ==
    UNION {{[i \in 1..n |-> [id |-> IdOrder[i], parent_id |-> ps[i]]] :
                ps \in {f \in [1..n -> {Null, Absent} \cup {IdOrder[j] : j \in 1..n}] :
                            \A i \in 1..n : \A j \in 1..n : f[i] = IdOrder[j] => j < i}} :
           n \in 0..Min(MaxTree, Len(IdOrder))}

\* the posts prop: the root nodes with everything nested under them (nodes
\* that buildHierarchy left out of every list are not part of the value)
Forest(rows) ==
    LET h == buildHierarchy(rows, Undefined)
        kept == ReachableFrom(h.comments, Range(h.rootPosts), Len(rows))
    IN  [rootPosts |-> h.rootPosts, comments |-> [id \in kept |-> h.comments[id]]]
LayoutForests == {Forest(rows) : rows \in TreeLists}
EmptyForest == Forest(<<>>)

\* container.clientWidth as the browser reports it
Widths == {200, 800}
fixedHeight == 250
initialWidth == 800
initialHeight == 300

(* Coordinates are exact real numbers, in eighths of a pixel, written as a    *)
(* sequence of integers: <<q, s>> is (q + s * sqrt(3)) / 8.  A coordinate     *)
(* whose cosine or sine is not in that field stays unevaluated: the           *)
(* sequence base \o <<r8, fn, i, n, k>> is                                    *)
(* base + (r8 / 8) * fn(2 * pi * i / n + k * 0.15), fn = 0 for Math.cos and   *)
(* 1 for Math.sin.  Rounding of the doubles (Math.sin(Math.PI) is 1.2e-16,    *)
(* not 0) is not modelled.                                                    *)

\* twice the cosine of t twelfths of a turn, <<a, b>> standing for a + b * sqrt(3)
Cos12(t) ==
    LET u == t % 12
    IN  CASE u = 0 -> <<2, 0>>
          [] u \in {1, 11} -> <<0, 1>>
          [] u \in {2, 10} -> <<1, 0>>
          [] u \in {3, 9} -> <<0, 0>>
          [] u \in {4, 8} -> <<0 - 1, 0>>
          [] u \in {5, 7} -> <<0, 0 - 1>>
          [] u = 6 -> <<0 - 2, 0>>

\* base + (r8 / 8) * fn(angle), the angle being i / n of a turn plus k * 0.15 rad
Polar(base, r8, fn, i, n, k) ==
    IF Len(base) = 2 /\ k = 0 /\ (12 * i) % n = 0
    THEN LET t == (12 * i) \div n
             c == IF fn = 0 THEN Cos12(t) ELSE Cos12(t + 9)
         IN  <<base[1] + (r8 \div 2) * c[1], base[2] + (r8 \div 2) * c[2]>>
    ELSE base \o <<r8, fn, i, n, k>>

centerX8(dim) == 4 * dim.width
centerY8(dim) == 4 * dim.height

\* variant: the ring radius taken from the width alone
level1RadiusWidth8(dim) == 2 * dim.width

\* Math.min(width, height) * 0.25
level1Radius8(dim) == 2 * Min(dim.width, dim.height)

level2Radius == 70

rootNode(realRoot, dim) ==
    [id |-> realRoot, x |-> <<centerX8(dim), 0>>, y |-> <<centerY8(dim), 0>>,
     radius |-> 20, level |-> 0]

\* the node of the index-th (0-based) of total start level posts
postNode(startPost, dim, index, total) ==
    [id |-> startPost,
     x |-> Polar(<<centerX8(dim), 0>>, level1Radius8(dim), 0, index, total, 0),
     y |-> Polar(<<centerY8(dim), 0>>, level1Radius8(dim), 1, index, total, 0),
     radius |-> 12, level |-> 1]

\* variant: the comments are drawn as nodes of the first ring
commentNodeLevelOne(comment, parent, index, total, cIndex, m) ==
    [id |-> comment,
     x |-> Polar(parent.x, 8 * level2Radius, 0, index, total, 2 * cIndex - m),
     y |-> Polar(parent.y, 8 * level2Radius, 1, index, total, 2 * cIndex - m),
     radius |-> 8, level |-> 1]

\* the node of the cIndex-th (0-based) of m comments of the post at parent;
\* cIndex - m / 2 steps of 0.3 rad are 2 * cIndex - m steps of 0.15 rad
commentNode(comment, parent, index, total, cIndex, m) ==
    [id |-> comment,
     x |-> Polar(parent.x, 8 * level2Radius, 0, index, total, 2 * cIndex - m),
     y |-> Polar(parent.y, 8 * level2Radius, 1, index, total, 2 * cIndex - m),
     radius |-> 8, level |-> 2]

\* variant: a single comment is not drawn
hasCommentsTwo(cs) == Len(cs) > 1

\* post.comments && post.comments.length > 0
hasComments(cs) == Len(cs) > 0

\* startLevelNodes.forEach from position index on: the nodes and links pushed
RECURSIVE Ring(_, _, _, _, _)
Ring(c, dim, root, startLevelNodes, index) ==
    IF index >= Len(startLevelNodes)
    THEN [nodes |-> <<>>, links |-> <<>>]
    ELSE LET startPost == startLevelNodes[index + 1]
             total == Len(startLevelNodes)
             pn == postNode(startPost, dim, index, total)
             cs == IF hasComments(c[startPost]) THEN c[startPost] ELSE <<>>
             l2 == [j \in 1..Len(cs) |->
                        commentNode(cs[j], pn, index, total, j - 1, Len(cs))]
             rest == Ring(c, dim, root, startLevelNodes, index + 1)
         IN  [nodes |-> <<pn>> \o l2 \o rest.nodes,
              links |-> <<[source |-> root, target |-> pn]>>
                            \o [j \in 1..Len(cs) |-> [source |-> pn, target |-> l2[j]]]
                            \o rest.links]

(* transform.scale is 1.1^w * 1.2^b: w counts accepted wheel steps, b button  *)
(* presses.  It is compared with 0.1 and 5 through natural logarithms times   *)
(* 10^6, which decide every comparison with |w| <= 80 and |b| <= 8 as the     *)
(* doubles do.                                                                *)
Ln11 == 95310
Ln12 == 182322
Ln5 == 1609438
Ln10 == 2302585
LnScale(scale) == scale.w * Ln11 + scale.b * Ln12
One == [w |-> 0, b |-> 0]
Identity == [x |-> 0, y |-> 0, scale |-> One]

\* history, not state of the component: the pan and the pointer position at
\* the latest mouseDown
NoDown == [pan |-> [x |-> 0, y |-> 0], pointer |-> [x |-> 0, y |-> 0]]

\* the component after an effect threw: React unmounts the tree, the state
\* of the component is gone and nothing is drawn any more
Crashed ==
    [mounted |-> FALSE, crashed |-> TRUE, posts |-> EmptyForest,
     dimensions |-> [width |-> initialWidth, height |-> initialHeight],
     nodes |-> <<>>, links |-> <<>>, hoveredNodeId |-> Null,
     transform |-> Identity, isDragging |-> FALSE, dragStart |-> [x |-> 0, y |-> 0],
     atDown |-> NoDown]

\* useEffect(..., [posts, dimensions]): with two or more root posts rootNode
\* and startLevelNodes are never assigned and startLevelNodes.length throws
layoutEffect(v) ==
    LET posts == v.posts.rootPosts
        c == v.posts.comments
    IN  IF Len(posts) = 0
        THEN v
        ELSE IF Len(posts) # 1
        THEN Crashed
        ELSE LET root == rootNode(posts[1], v.dimensions)
                 startLevelNodes == c[posts[1]]
                 ring == Ring(c, v.dimensions, root, startLevelNodes, 0)
             IN  IF Len(startLevelNodes) = 0
                 THEN [v EXCEPT !.nodes = <<root>>, !.links = <<>>]
                 ELSE [v EXCEPT !.nodes = <<root>> \o ring.nodes,
                                !.links = ring.links]

\* updateDimensions, followed by the layout effect that depends on dimensions
updateDimensions(v, clientWidth) ==
    layoutEffect([v EXCEPT !.dimensions = [width |-> clientWidth, height |-> fixedHeight]])

\* a render with a new posts prop, followed by the layout effect
setPosts(v, forest) == layoutEffect([v EXCEPT !.posts = forest])

\* e.clientX, e.clientY of the pointer events
Pointers == {[x |-> 0, y |-> 0], [x |-> 1, y |-> 2]}

\* variant: the drag starts from the pointer position alone
handleMouseDownNoOffset(v, e) ==
    [v EXCEPT !.isDragging = TRUE, !.dragStart = [x |-> e.x, y |-> e.y]]

handleMouseDown(v, e) ==
    [v EXCEPT !.isDragging = TRUE,
              !.dragStart = [x |-> e.x - v.transform.x, y |-> e.y - v.transform.y]]

\* variant: the drag moves the nodes instead of the transform
handleMouseMoveNodes(v, e) ==
    IF ~v.isDragging
    THEN v
    ELSE [v EXCEPT !.nodes = [i \in DOMAIN v.nodes |->
                        [v.nodes[i] EXCEPT !.x = <<@[1] + 8 * (e.x - v.dragStart.x)>> \o Tail(@)]]]

handleMouseMove(v, e) ==
    IF ~v.isDragging
    THEN v
    ELSE [v EXCEPT !.transform.x = e.x - v.dragStart.x,
                   !.transform.y = e.y - v.dragStart.y]

handleMouseUp(v) == [v EXCEPT !.isDragging = FALSE]

\* deltaY < 0 zooms in
handleWheel(v, deltaYNegative) ==
    LET newScale == [v.transform.scale EXCEPT !.w = IF deltaYNegative THEN @ + 1 ELSE @ - 1]
    IN  IF LnScale(newScale) < 0 - Ln10 \/ LnScale(newScale) > Ln5
        THEN v
        ELSE [v EXCEPT !.transform.scale = newScale]

zoomIn(v) == [v EXCEPT !.transform.scale.b = @ + 1]
zoomOut(v) == [v EXCEPT !.transform.scale.b = @ - 1]

\* variant: the R button recentres the view and keeps the zoom
resetTransformPan(v) == [v EXCEPT !.transform.x = 0, !.transform.y = 0]

resetTransform(v) == [v EXCEPT !.transform = Identity]

\* the component as useState initialises it, before any effect has run
InitialViz ==
    [mounted |-> TRUE, crashed |-> FALSE, posts |-> EmptyForest,
     dimensions |-> [width |-> initialWidth, height |-> initialHeight],
     nodes |-> <<>>, links |-> <<>>, hoveredNodeId |-> Null,
     transform |-> Identity, isDragging |-> FALSE, dragStart |-> [x |-> 0, y |-> 0],
     atDown |-> NoDown]

VizIdle ==
    /\ pc = "viz" /\ event = NoEvent /\ post = NoPost /\ events = <<>> /\ data = <<>>
    /\ highlightedId = Undefined /\ rootPosts = <<>> /\ comments = NoComments
    /\ IndexIdle
    /\ async = NoAsync

vizFrame ==
    <<pc, event, post, events, data, highlightedId, rootPosts, comments, indexVars, async>>

SetPosts(forests) ==
    /\ ~viz.crashed
    /\ \E forest \in forests : viz' = setPosts(viz, forest)
    /\ UNCHANGED vizFrame

Resize ==
    /\ ~viz.crashed
    /\ \E w \in Widths : viz' = updateDimensions(viz, w)
    /\ UNCHANGED vizFrame

\* onMouseEnter / onMouseLeave of a node
Hover ==
    /\ ~viz.crashed
    /\ \E id \in {viz.nodes[i].id : i \in DOMAIN viz.nodes} \cup {Null} :
           viz' = [viz EXCEPT !.hoveredNodeId = id]
    /\ UNCHANGED vizFrame

InitLayout == VizIdle /\ viz = InitialViz
NextLayout == SetPosts(LayoutForests) \/ Resize \/ Hover
SpecLayout == InitLayout /\ [][NextLayout]_vars

-----------------------------------------------------------------------------
(* Claims about the layout *)

\* the parent-to-child edges of a forest
TreeEdges(f) ==
    {e \in (DOMAIN f.comments) \X (DOMAIN f.comments) : e[2] \in Range(f.comments[e[1]])}

\* number of edges between a node of the forest and its root
Depth(f, id) == Len(findPathToNode(f.comments, f.rootPosts, id, <<>>)) - 1

PublishedNodes == Range(viz.nodes)

\* the links that join the published node of p to the published node of ch
LinksOf(p, ch) ==
    {i \in DOMAIN viz.links :
        /\ viz.links[i].source \in PublishedNodes /\ viz.links[i].source.id = p
        /\ viz.links[i].target \in PublishedNodes /\ viz.links[i].target.id = ch}

SingleRootLaidOut == viz.mounted /\ Len(viz.posts.rootPosts) = 1

\* C17: for every single-root tree given to the layout, the published links
\* are exactly one link per parent-to-child edge of the tree, from the
\* parent's node to the child's node, and no other link.
LinkCoverage ==
    SingleRootLaidOut =>
        /\ \A e \in TreeEdges(viz.posts) : Cardinality(LinksOf(e[1], e[2])) = 1
        /\ \A i \in DOMAIN viz.links :
               /\ <<viz.links[i].source.id, viz.links[i].target.id>> \in TreeEdges(viz.posts)
               /\ i \in LinksOf(viz.links[i].source.id, viz.links[i].target.id)

\* C17, amended: the published links are exactly one link per parent-to-child
\* edge whose child is a child or a grandchild of the root (depth 1 or 2),
\* from the parent's node to the child's node, and no other link.
LinkCoverageTwoLevels ==
    SingleRootLaidOut =>
        /\ \A e \in TreeEdges(viz.posts) :
               Cardinality(LinksOf(e[1], e[2])) = IF Depth(viz.posts, e[2]) <= 2 THEN 1 ELSE 0
        /\ \A i \in DOMAIN viz.links :
               /\ <<viz.links[i].source.id, viz.links[i].target.id>> \in TreeEdges(viz.posts)
               /\ Depth(viz.posts, viz.links[i].target.id) <= 2
               /\ i \in LinksOf(viz.links[i].source.id, viz.links[i].target.id)

\* a laid out tree with a great-grandchild of the root and links on both levels
LinkCoverageTwoLevelsWitness ==
    /\ SingleRootLaidOut
    /\ \E e \in TreeEdges(viz.posts) : Depth(viz.posts, e[2]) = 3
    /\ \E i \in DOMAIN viz.links : viz.links[i].target.level = 2
    /\ \E i \in DOMAIN viz.links : viz.links[i].target.level = 1

\* C18: whenever the forest supplied to the layout is empty, the published
\* node and link lists are empty and no error was raised, whatever was laid
\* out before.
EmptyForestResult ==
    (viz.mounted /\ viz.posts = EmptyForest) =>
        /\ ~viz.crashed
        /\ viz.nodes = <<>>
        /\ viz.links = <<>>

NodeOf(id) == CHOOSE n \in PublishedNodes : n.id = id

\* r = min(W, H) * 0.25, in eighths of a pixel
RingRadius8 == 2 * Min(viz.dimensions.width, viz.dimensions.height)

-----------------------------------------------------------------------------
(* The view transform: pointer, wheel and button events on a visualization   *)
(* that shows one of a few forests.                                           *)

ViewThreads ==
    {<<>>,
     <<[id |-> "a", parent_id |-> Null], [id |-> "b", parent_id |-> "a"],
       [id |-> "c", parent_id |-> "a"], [id |-> "d", parent_id |-> "b"]>>}

ViewForests == {Forest(rows) : rows \in ViewThreads}

Abs(n) == IF n < 0 THEN 0 - n ELSE n

\* onMouseDown of the svg
MouseDown ==
    /\ ~viz.crashed
    /\ \E e \in Pointers :
           viz' = [handleMouseDown(viz, e) EXCEPT
                       !.atDown = [pan |-> [x |-> viz.transform.x, y |-> viz.transform.y],
                                   pointer |-> e]]
    /\ UNCHANGED vizFrame

\* onMouseMove of the svg
MouseMove ==
    /\ ~viz.crashed
    /\ \E e \in Pointers :
           /\ viz' = handleMouseMove(viz, e)
           /\ Abs(viz'.transform.x) <= MaxPan
           /\ Abs(viz'.transform.y) <= 2 * MaxPan
    /\ UNCHANGED vizFrame

\* onMouseUp and onMouseLeave of the svg
MouseUp ==
    /\ ~viz.crashed
    /\ viz' = handleMouseUp(viz)
    /\ UNCHANGED vizFrame

\* onWheel of the svg
Wheel ==
    /\ ~viz.crashed
    /\ \E deltaYNegative \in BOOLEAN : viz' = handleWheel(viz, deltaYNegative)
    /\ UNCHANGED vizFrame

\* onClick of the + button
ZoomIn ==
    /\ ~viz.crashed
    /\ viz.transform.scale.b < MaxZoomClicks
    /\ viz' = zoomIn(viz)
    /\ UNCHANGED vizFrame

\* onClick of the - button
ZoomOut ==
    /\ ~viz.crashed
    /\ viz.transform.scale.b > 0 - MaxZoomClicks
    /\ viz' = zoomOut(viz)
    /\ UNCHANGED vizFrame

\* onClick of the R button
Reset ==
    /\ ~viz.crashed
    /\ viz' = resetTransform(viz)
    /\ UNCHANGED vizFrame

InitView == VizIdle /\ viz = InitialViz
NextView ==
    \/ SetPosts(ViewForests)
    \/ Resize
    \/ MouseDown
    \/ MouseMove
    \/ MouseUp
    \/ Wheel
    \/ ZoomIn
    \/ ZoomOut
    \/ Reset
SpecView == InitView /\ [][NextView]_vars

-----------------------------------------------------------------------------
(* Claims about the view transform *)

\* C13: after any sequence of wheel zooms, + and - button zooms, drags and
\* resets, transform.scale is within [0.1, 5].
ScaleBound ==
    viz.mounted =>
        /\ LnScale(viz.transform.scale) >= 0 - Ln10
        /\ LnScale(viz.transform.scale) <= Ln5

TransformEvent == MouseDown \/ MouseMove \/ MouseUp \/ Wheel \/ ZoomIn \/ ZoomOut \/ Reset

\* C20: no pan, wheel zoom, button zoom or reset changes the published node
\* coordinates or the link list; they change only in a step that changes the
\* posts input or the viewport dimensions.
LayoutIndependent ==
    [][/\ TransformEvent => (viz'.nodes = viz.nodes /\ viz'.links = viz.links)
       /\ (viz'.nodes # viz.nodes \/ viz'.links # viz.links)
              => (viz'.posts # viz.posts \/ viz'.dimensions # viz.dimensions)]_vars

\* a laid out tree seen panned and zoomed by wheel and by button
LayoutIndependentWitness ==
    /\ viz.mounted
    /\ Len(viz.nodes) >= 2
    /\ viz.transform.x # 0
    /\ viz.transform.scale.w # 0
    /\ viz.transform.scale.b # 0

\* C21: from every transform state reachable by drags and zooms, the reset
\* action sets the transform to the identity {x: 0, y: 0, scale: 1}.
ResetToIdentity ==
    viz.mounted => resetTransform(viz).transform = Identity

\* a view panned and zoomed by wheel and button, in the middle of a drag,
\* that the R button brings back to the identity
ResetToIdentityWitness ==
    /\ viz.mounted
    /\ viz.isDragging
    /\ viz.transform.y # 0
    /\ viz.transform.scale.w < 0
    /\ viz.transform.scale.b > 0
    /\ resetTransform(viz).transform = Identity

-----------------------------------------------------------------------------
(* More claims about the layout *)

\* what a first run of the layout publishes for these posts and dimensions
FirstRun(forest, dim) ==
    layoutEffect([InitialViz EXCEPT !.posts = forest, !.dimensions = dim])

\* C22: two runs of the layout on the same forest and the same viewport
\* dimensions publish the same node list and the same link list, whatever
\* the hover, drag or transform state: what is published is what a first
\* run on these inputs publishes.
LayoutDeterminism ==
    viz.mounted =>
        /\ viz.nodes = FirstRun(viz.posts, viz.dimensions).nodes
        /\ viz.links = FirstRun(viz.posts, viz.dimensions).links

\* the ids of the forest at this depth
IdsAtDepth(f, d) == {id \in DOMAIN f.comments : Depth(f, id) = d}

NodesOf(id) == {i \in DOMAIN viz.nodes : viz.nodes[i].id = id}

\* C23: for a single-root tree of any depth the layout publishes exactly one
\* node for the root (level 0), one per child of the root (level 1), one per
\* grandchild (level 2), each id once, and no node for a deeper descendant.
DepthCap ==
    SingleRootLaidOut =>
        /\ \A id \in DOMAIN viz.posts.comments :
               /\ Cardinality(NodesOf(id)) = IF Depth(viz.posts, id) <= 2 THEN 1 ELSE 0
               /\ \A i \in NodesOf(id) : viz.nodes[i].level = Depth(viz.posts, id)
        /\ \A i \in DOMAIN viz.nodes : viz.nodes[i].id \in DOMAIN viz.posts.comments

\* a laid out chain of four: three nodes published, the great-grandchild not
DepthCapWitness ==
    /\ SingleRootLaidOut
    /\ IdsAtDepth(viz.posts, 3) # {}
    /\ \A id \in IdsAtDepth(viz.posts, 3) : NodesOf(id) = {}
    /\ Len(viz.nodes) = 3

-----------------------------------------------------------------------------
(* The search of findPathToNode, step by step *)

\* marks a search that went deeper than the forest has notes
Diverges == "diverges"

Last(s) == s[Len(s)]

\* variant: the loop goes on with the next sibling after a path was found below
RECURSIVE findPathVisitsAll(_, _, _, _)
findPathVisitsAll(c, nodes, targetId, fuel) ==
    IF nodes = <<>> THEN <<>>
    ELSE LET node == Head(nodes)
         IN  IF node = targetId THEN <<node>>
             ELSE LET below == IF fuel = 0 THEN <<Diverges>>
                               ELSE findPathVisitsAll(c, c[node], targetId, fuel - 1)
                  IN  IF below # <<>> /\ Last(below) = Diverges
                      THEN <<node>> \o below
                      ELSE <<node>> \o below \o findPathVisitsAll(c, Tail(nodes), targetId, fuel)

\* the ids findPathToNode compares with targetId, in the order of the
\* comparisons; the search is cut off with Diverges fuel levels down
RECURSIVE findPathVisits(_, _, _, _)
findPathVisits(c, nodes, targetId, fuel) ==
    IF nodes = <<>> THEN <<>>
    ELSE LET node == Head(nodes)
         IN  IF node = targetId THEN <<node>>
             ELSE LET below == IF fuel = 0 THEN <<Diverges>>
                               ELSE findPathVisits(c, c[node], targetId, fuel - 1)
                  IN  IF below # <<>> /\ Last(below) \in {targetId, Diverges}
                      THEN <<node>> \o below
                      ELSE <<node>> \o below \o findPathVisits(c, Tail(nodes), targetId, fuel)

Visits(targetId) ==
    findPathVisits(comments, rootPosts, targetId, Cardinality(DOMAIN comments) + 1)

\* C24: for every forest built by buildHierarchy from notes with distinct ids
\* and every target id, present or absent, findPathToNode terminates,
\* compares no node more than once and stops as soon as the target is found.
PathSearchTerminates ==
    pc = "loaded" =>
        \A targetId \in ClickIds :
            /\ Diverges \notin Range(Visits(targetId))
            /\ NoDuplicates(Visits(targetId))
            /\ \A i \in DOMAIN Visits(targetId) :
                   Visits(targetId)[i] = targetId => i = Len(Visits(targetId))
            /\ targetId \in LoadedIds => Last(Visits(targetId)) = targetId
            /\ targetId \notin LoadedIds => Range(Visits(targetId)) = LoadedIds

\* notes with a cycle that no root reaches, searched for a target that is
\* found below a root
PathSearchTerminatesWitness ==
    /\ pc = "loaded"
    /\ \E id \in DOMAIN comments : OnCycle(id)
    /\ \E targetId \in LoadedIds :
           /\ Len(Visits(targetId)) >= 2
           /\ targetId \notin Range(rootPosts)

-----------------------------------------------------------------------------
(* The layout and the forests of its caller *)

\* C25: for every non-empty forest handed over by Index, with one root or
\* several, the layout effect completes without throwing and publishes
\* nodes and links such that every link joins two published nodes.
LayoutAcceptsForest ==
    /\ ~viz.crashed
    /\ \A i \in DOMAIN viz.links :
           /\ viz.links[i].source \in PublishedNodes
           /\ viz.links[i].target \in PublishedNodes

-----------------------------------------------------------------------------
(* The drag *)

PanChanges == viz'.transform.x # viz.transform.x \/ viz'.transform.y # viz.transform.y

\* a mouse move at e that happens after a mouseDown and before the next
\* mouseUp or mouseLeave
DragMove(e) == viz.isDragging /\ viz' = handleMouseMove(viz, e)

\* the pan is the pan at the mouseDown plus the way of the pointer since then
PanFollowsPointer(e) ==
    /\ viz'.transform.x = viz.atDown.pan.x + (e.x - viz.atDown.pointer.x)
    /\ viz'.transform.y = viz.atDown.pan.y + (e.y - viz.atDown.pointer.y)
    /\ viz'.transform.scale = viz.transform.scale

\* C26: the transform's x/y change only on mouse moves between a mouseDown
\* and the next mouseUp or mouseLeave; during such a drag the pan equals
\* panAtDown + (pointer - pointerAtDown) and the scale is unchanged; mouse
\* moves outside a drag leave the transform unchanged.
DragStateMachine ==
    [][/\ PanChanges => \E e \in Pointers : DragMove(e)
       /\ \A e \in Pointers : (MouseMove /\ DragMove(e)) => PanFollowsPointer(e)
       /\ (MouseMove /\ ~viz.isDragging) => viz'.transform = viz.transform]_vars

\* C26, amended: the transform's x/y change only on mouse moves between a
\* mouseDown and the next mouseUp or mouseLeave, or on a click on the reset
\* button; during such a drag the pan equals panAtDown + (pointer -
\* pointerAtDown) and the scale is unchanged; mouse moves outside a drag
\* leave the transform unchanged.
DragStateMachineOrReset ==
    [][/\ PanChanges => (Reset \/ \E e \in Pointers : DragMove(e))
       /\ \A e \in Pointers : (MouseMove /\ DragMove(e)) => PanFollowsPointer(e)
       /\ (MouseMove /\ ~viz.isDragging) => viz'.transform = viz.transform]_vars

\* in a drag that started from a panned and zoomed view and has moved it
DragStateMachineOrResetWitness ==
    /\ viz.mounted
    /\ viz.isDragging
    /\ viz.atDown.pan.x # 0
    /\ viz.transform.x # viz.atDown.pan.x
    /\ viz.transform.scale # One

-----------------------------------------------------------------------------
(* Overlapping loadPosts calls (src/unnamed/part_002, 135-152).  async holds  *)
(* the notes the relays have, newest first, the loadPosts calls in the order  *)
(* they were started, and the posts and filteredPosts state of Index.  A      *)
(* call awaits fetchPosts, whose answer is the relays' content at some        *)
(* moment between the start and the end of the fetch; its continuation then   *)
(* builds the forest and stores it.  Calls are started by the mount effect,   *)
(* by setTimeout(loadPosts, 1000) after a post and by the delayed onUpdate    *)
(* after a comment, and nothing orders their fetches.                         *)

\* bound: loadPosts calls in one run
MaxLoads == 2
\* bound: notes published to the relays in one run
MaxRelayNotes == 2

NoRows == <<"pending">>

\* setPosts(hierarchicalPosts); setFilteredPosts(hierarchicalPosts)
Store(a, i, forest) ==
    [a EXCEPT !.posts = forest, !.filteredPosts = forest, !.calls[i].pc = "done"]

InitReload ==
    /\ pc = "reload" /\ event = NoEvent /\ post = NoPost /\ events = <<>> /\ data = <<>>
    /\ highlightedId = Undefined /\ rootPosts = <<>> /\ comments = NoComments
    /\ IndexIdle
    /\ viz = NoViz
    /\ async = [relay |-> <<>>, calls |-> <<>>,
                posts |-> EmptyForest, filteredPosts |-> EmptyForest]

reloadFrame ==
    <<pc, event, post, events, data, highlightedId, rootPosts, comments, indexVars, viz>>

\* publishPost: a note or a reply reaches the relays
PublishNote ==
    /\ Len(async.relay) < Min(MaxRelayNotes, Len(IdOrder))
    /\ \E parent \in {Null} \cup {async.relay[k].id : k \in DOMAIN async.relay} :
           async' = [async EXCEPT !.relay =
                        <<[id |-> IdOrder[Len(async.relay) + 1], parent_id |-> parent]>> \o @]
    /\ UNCHANGED reloadFrame

\* loadPosts() up to its await
StartLoad ==
    /\ Len(async.calls) < MaxLoads
    /\ async' = [async EXCEPT !.calls = Append(@, [pc |-> "fetching", rows |-> NoRows])]
    /\ UNCHANGED reloadFrame

\* the relays answer the fetch of call i
AnswerFetch(i) ==
    /\ i \in DOMAIN async.calls
    /\ async.calls[i].pc = "fetching"
    /\ async' = [async EXCEPT !.calls[i] = [pc |-> "answered", rows |-> async.relay]]
    /\ UNCHANGED reloadFrame

\* the continuation of call i after await fetchPosts()
CompleteLoad(i) ==
    /\ i \in DOMAIN async.calls
    /\ async.calls[i].pc = "answered"
    /\ async' = Store(async, i, Forest(async.calls[i].rows))
    /\ UNCHANGED reloadFrame

\* fetchPosts rejects: the catch block reports the error and stores nothing
FailLoad(i) ==
    /\ i \in DOMAIN async.calls
    /\ async.calls[i].pc = "fetching"
    /\ async' = [async EXCEPT !.calls[i].pc = "failed"]
    /\ UNCHANGED reloadFrame

NextReload ==
    \/ PublishNote
    \/ StartLoad
    \/ \E i \in 1..MaxLoads : AnswerFetch(i)
    \/ \E i \in 1..MaxLoads : CompleteLoad(i)
    \/ \E i \in 1..MaxLoads : FailLoad(i)

SpecReload == InitReload /\ [][NextReload]_vars

Settled(call) == call.pc \in {"done", "failed"}

\* C27: when two loadPosts calls overlap, the forest finally stored in posts
\* and filteredPosts is the one built from the call that was started last,
\* whatever order the two fetches complete in.
LastStartedWins ==
    LET n == Len(async.calls)
    IN  (n >= 2 /\ (\A i \in 1..n : Settled(async.calls[i])) /\ async.calls[n].pc = "done")
            => /\ async.posts = Forest(async.calls[n].rows)
               /\ async.filteredPosts = Forest(async.calls[n].rows)

-----------------------------------------------------------------------------
(* Concurrent initNDK calls (src/unnamed/part_000, 14-30).  JavaScript runs   *)
(* the code of a call up to its first await without interruption, so a call   *)
(* is one step up to `await ndk.connect()` or up to `return ndk`, and the     *)
(* end of connect() is a step of its own.  async holds the module variable    *)
(* ndk, the number of instances created and of connect() calls, the state of  *)
(* the connection, and the initNDK calls with what their callers did next.    *)

\* bound: initNDK calls in one run
MaxInitCalls == 3

\* the functions that start with `await initNDK()`
Callers == {"fetchPosts", "loginWithNostr", "publishPost"}

TheNDK == "ndk"

InitInitNDK ==
    /\ pc = "initNDK" /\ event = NoEvent /\ post = NoPost /\ events = <<>> /\ data = <<>>
    /\ highlightedId = Undefined /\ rootPosts = <<>> /\ comments = NoComments
    /\ IndexIdle
    /\ viz = NoViz
    /\ \E nostr \in BOOLEAN :
           async = [windowNostr |-> nostr, ndk |-> Undefined, signer |-> Undefined,
                    created |-> 0, connectCalls |-> 0, connect |-> "none", calls |-> <<>>]

\* initNDK() up to its first await or its return
initNDK(a, caller) ==
    IF a.ndk # Undefined
    THEN [a EXCEPT !.calls = Append(@, [caller |-> caller, pc |-> "resolved",
                                        result |-> a.ndk,
                                        connected |-> a.connect = "done"])]
    ELSE [a EXCEPT !.ndk = TheNDK,
                   !.created = @ + 1,
                   !.signer = IF a.windowNostr THEN "nip07" ELSE Undefined,
                   !.connectCalls = @ + 1,
                   !.connect = "pending",
                   !.calls = Append(@, [caller |-> caller, pc |-> "awaitConnect",
                                        result |-> Undefined, connected |-> FALSE])]

CallInitNDK ==
    /\ Len(async.calls) < MaxInitCalls
    /\ \E caller \in Callers : async' = initNDK(async, caller)
    /\ UNCHANGED reloadFrame

\* ndk.connect() fulfils: the call that awaits it returns ndk
ConnectCompletes ==
    /\ async.connect = "pending"
    /\ async' = [async EXCEPT
                    !.connect = "done",
                    !.calls = [i \in DOMAIN @ |->
                                  IF @[i].pc = "awaitConnect"
                                  THEN [@[i] EXCEPT !.pc = "resolved", !.result = async.ndk,
                                                    !.connected = TRUE]
                                  ELSE @[i]]]
    /\ UNCHANGED reloadFrame

\* the caller goes on after `await initNDK()` and uses the instance
\* (ndk.fetchEvents, event.publish, ndk.signer = ...)
UseInstance(i) ==
    /\ i \in DOMAIN async.calls
    /\ async.calls[i].pc = "resolved"
    /\ async' = [async EXCEPT !.calls[i].pc = "used",
                              !.calls[i].connected = async.connect = "done"]
    /\ UNCHANGED reloadFrame

NextInitNDK ==
    \/ CallInitNDK
    \/ ConnectCompletes
    \/ \E i \in 1..MaxInitCalls : UseInstance(i)

SpecInitNDK == InitInitNDK /\ [][NextInitNDK]_vars

\* C28: under any interleaving of concurrent initNDK calls exactly one NDK
\* instance is created and connect() is called on it once, and every call
\* resolves with that instance only after its connect() has completed.
ConnectionBeforeUse ==
    /\ async.calls # <<>> => (async.created = 1 /\ async.connectCalls = 1)
    /\ \A i \in DOMAIN async.calls :
           async.calls[i].pc \in {"resolved", "used"}
               => (async.calls[i].result = TheNDK /\ async.calls[i].connected)

-----------------------------------------------------------------------------
(* loginWithNostr (src/unnamed/part_000, 39-83).  async holds window.nostr,   *)
(* ndk.signer and the loginWithNostr calls; a call is the record of its       *)
(* position, the count and the interval timer of its waitForNostr, the ticks  *)
(* that timer has made, whether the call assigned ndk.signer and the error    *)
(* it rejected with.  The extension may be injected at any moment and stays.  *)

\* bound: loginWithNostr calls in one run
MaxLogins == 1

retries == 10

NoExtension == "No NIP-07 extension found"

IdleLogin ==
    [pc |-> "idle", count |-> 0, timer |-> FALSE, ticks |-> 0,
     setSigner |-> FALSE, error |-> Null]

\* variant: the interval gives up two ticks later
waitTickLate(l, nostr) ==
    IF nostr
    THEN [l EXCEPT !.timer = FALSE, !.pc = "check", !.count = @ + 1, !.ticks = @ + 1]
    ELSE IF l.count >= retries + 2
    THEN [l EXCEPT !.timer = FALSE, !.pc = "check", !.count = @ + 1, !.ticks = @ + 1]
    ELSE [l EXCEPT !.count = @ + 1, !.ticks = @ + 1]

\* one run of the setInterval callback of waitForNostr
waitTick(l, nostr) ==
    IF nostr
    THEN [l EXCEPT !.timer = FALSE, !.pc = "check", !.count = @ + 1, !.ticks = @ + 1]
    ELSE IF l.count >= retries
    THEN [l EXCEPT !.timer = FALSE, !.pc = "check", !.count = @ + 1, !.ticks = @ + 1]
    ELSE [l EXCEPT !.count = @ + 1, !.ticks = @ + 1]

\* waitForNostr() up to the end of the promise executor
waitForNostr(l, nostr) ==
    IF nostr
    THEN [l EXCEPT !.pc = "check"]
    ELSE [l EXCEPT !.pc = "waiting", !.timer = TRUE]

InitLogin ==
    /\ pc = "login" /\ event = NoEvent /\ post = NoPost /\ events = <<>> /\ data = <<>>
    /\ highlightedId = Undefined /\ rootPosts = <<>> /\ comments = NoComments
    /\ IndexIdle
    /\ viz = NoViz
    /\ \E nostr \in BOOLEAN :
           async = [windowNostr |-> nostr, signer |-> Undefined,
                    logins |-> [i \in 1..MaxLogins |-> IdleLogin]]

\* the extension injects window.nostr
InjectNostr ==
    /\ ~async.windowNostr
    /\ async' = [async EXCEPT !.windowNostr = TRUE]
    /\ UNCHANGED reloadFrame

\* loginWithNostr() up to `await initNDK()`
StartLogin(i) ==
    /\ async.logins[i].pc = "idle"
    /\ async' = [async EXCEPT !.logins[i].pc = "initNDK"]
    /\ UNCHANGED reloadFrame

\* initNDK settles: fulfilled, the call goes on into waitForNostr; rejected,
\* the call rejects
InitNDKSettles(i) ==
    /\ async.logins[i].pc = "initNDK"
    /\ \/ async' = [async EXCEPT !.logins[i] = waitForNostr(@, async.windowNostr)]
       \/ async' = [async EXCEPT !.logins[i].pc = "rejected", !.logins[i].error = "initNDK"]
    /\ UNCHANGED reloadFrame

\* the interval timer of waitForNostr fires
WaitTick(i) ==
    /\ async.logins[i].pc = "waiting"
    /\ async.logins[i].timer
    /\ async' = [async EXCEPT !.logins[i] = waitTick(@, async.windowNostr)]
    /\ UNCHANGED reloadFrame

\* after `await waitForNostr()`: if (window.nostr) { ndk.signer = ...;
\* Promise.race([...]) } else throw
CheckExtension(i) ==
    /\ async.logins[i].pc = "check"
    /\ IF async.windowNostr
       THEN async' = [async EXCEPT !.signer = "nip07",
                                   !.logins[i].setSigner = TRUE,
                                   !.logins[i].pc = "race"]
       ELSE async' = [async EXCEPT !.logins[i].pc = "rejected",
                                   !.logins[i].error = NoExtension]
    /\ UNCHANGED reloadFrame

\* ndk.signer.blockUntilReady() settles first: fulfilled or rejected
BlockUntilReadySettles(i) ==
    /\ async.logins[i].pc = "race"
    /\ \/ async' = [async EXCEPT !.logins[i].pc = "user"]
       \/ async' = [async EXCEPT !.logins[i].pc = "rejected", !.logins[i].error = "signer"]
    /\ UNCHANGED reloadFrame

\* wait(2000) settles first
ReadyTimeout(i) ==
    /\ async.logins[i].pc = "race"
    /\ async' = [async EXCEPT !.logins[i].pc = "user"]
    /\ UNCHANGED reloadFrame

\* ndk.signer.user() settles
UserSettles(i) ==
    /\ async.logins[i].pc = "user"
    /\ \/ async' = [async EXCEPT !.logins[i].pc = "profile"]
       \/ async' = [async EXCEPT !.logins[i].pc = "rejected", !.logins[i].error = "user"]
    /\ UNCHANGED reloadFrame

\* user.fetchProfile() settles
FetchProfileSettles(i) ==
    /\ async.logins[i].pc = "profile"
    /\ \/ async' = [async EXCEPT !.logins[i].pc = "fulfilled"]
       \/ async' = [async EXCEPT !.logins[i].pc = "rejected", !.logins[i].error = "profile"]
    /\ UNCHANGED reloadFrame

LoginStep(i) ==
    \/ StartLogin(i)
    \/ InitNDKSettles(i)
    \/ WaitTick(i)
    \/ CheckExtension(i)
    \/ BlockUntilReadySettles(i)
    \/ ReadyTimeout(i)
    \/ UserSettles(i)
    \/ FetchProfileSettles(i)

NextLogin == InjectNostr \/ \E i \in 1..MaxLogins : LoginStep(i)

\* timers fire, continuations run, and initNDK, signer.user() and
\* fetchProfile settle; nothing makes blockUntilReady settle or the user start
LoginFairness ==
    \A i \in 1..MaxLogins :
        /\ WF_vars(InitNDKSettles(i))
        /\ WF_vars(WaitTick(i))
        /\ WF_vars(CheckExtension(i))
        /\ WF_vars(ReadyTimeout(i))
        /\ WF_vars(UserSettles(i))
        /\ WF_vars(FetchProfileSettles(i))

SpecLogin == InitLogin /\ [][NextLogin]_vars /\ LoginFairness

LoginSettled(i) == async.logins[i].pc \in {"fulfilled", "rejected"}

\* waitForNostr makes at most retries + 1 ticks and leaves no timer behind;
\* without an extension the call rejects with NoExtension and sets no signer
LoginSafe(i) ==
    LET l == async.logins[i]
    IN  /\ l.ticks <= retries + 1
        /\ l.pc \notin {"waiting"} => ~l.timer
        /\ l.error \notin {Null, "initNDK", NoExtension} => l.setSigner
        /\ (l.pc = "rejected" /\ l.error = NoExtension) => ~l.setSigner
        /\ (LoginSettled(i) /\ ~async.windowNostr /\ l.error # "initNDK")
               => (l.pc = "rejected" /\ l.error = NoExtension /\ l.ticks = retries + 1)

\* C29: given that initNDK, signer.user() and fetchProfile settle, every
\* loginWithNostr call eventually settles: waitForNostr resolves after at
\* most retries + 1 ticks, with or without window.nostr, and clears its
\* timer; the readiness wait ends with the 2000 ms timer even if
\* blockUntilReady never settles; without an extension the call rejects with
\* 'No NIP-07 extension found' and sets no signer.
LoginAlwaysSettles ==
    /\ [](\A i \in 1..MaxLogins : LoginSafe(i))
    /\ \A i \in 1..MaxLogins : (async.logins[i].pc # "idle") ~> LoginSettled(i)

\* a call that made every tick of waitForNostr without an extension
\* appearing, rejected for want of it with its timer cleared
LoginAlwaysSettlesWitness ==
    \E i \in 1..MaxLogins :
        /\ async.logins[i].pc = "rejected"
        /\ async.logins[i].error = NoExtension
        /\ async.logins[i].ticks = retries + 1
        /\ ~async.logins[i].timer
        /\ async.signer = Undefined

-----------------------------------------------------------------------------
(* The resolver of src/src/lib/nostr.ts (109-124 and, word for word the      *)
(* same, 284-299)                                                             *)

\* event.tags.find(t => t[0] === 'e')
findETag(tags) ==
    IF \E i \in DOMAIN tags : IsETag(tags[i])
    THEN tags[CHOOSE i \in DOMAIN tags :
                  IsETag(tags[i]) /\ \A j \in 1..(i - 1) : ~IsETag(tags[j])]
    ELSE NoTag

mapEventToPostLib(ev) ==
    LET parentTag == findETag(ev.tags)
    IN  [id |-> ev.id,
         created_at |-> IF ev.created_at = NoTime THEN 0 ELSE ev.created_at,
         parent_id |-> IF parentTag # NoTag THEN At(parentTag, 1) ELSE Null]

\* C30: for every tag list the mapEventToPost of src/src/lib/nostr.ts (both
\* copies) and the mapEventToPost of src/unnamed/part_000 compute the same
\* parent_id.
ResolversAgree ==
    pc = "mapped" => mapEventToPostLib(event).parent_id = post.parent_id


====
